---- MODULE Spec2Model ----
(***************************************************************************)
(* Media-generation orchestration of the PAIS staff console: the video     *)
(* stage (three revisions of modules/video-generator.js), its status       *)
(* poller, and the voice pipeline (create task -> approve -> voice).        *)
(*                                                                         *)
(* Every handler is split at its await points: one action for the          *)
(* synchronous part up to the request it issues, one action for the        *)
(* continuation that runs when the response (or the timer) arrives.        *)
(* The variable out holds the I/O of the last handler step: the request it *)
(* put on the network and the notifications it showed.                     *)
(***************************************************************************)
EXTENDS Integers, Sequences, FiniteSets, TLC

\* ------------------------------------------------------------------ bounds
MaxLaunches == 1      \* video launches followed in Spec and SpecPipeline
MaxRelaunches == 2    \* video launches followed in SpecRelaunch
MaxContentRuns == 1   \* runs of the content module's generate() followed
MaxPollSteps == 2     \* poll iterations followed per poller outside SpecPoll
MaxVoiceRuns == 2     \* voice generations followed in SpecVoice
GhostCap == 2         \* the report counters saturate here
MaxBatches == 2       \* photo upload batches followed
MaxFiles == 3         \* files selected in one photo upload batch
MaxProofreads == 2    \* proofreading requests followed

\* --------------------------------------------------------- program values
maxAttempts == 120

NULL == "null"

TaskIds == {"t1", "t2"}
JobIds == {"j1", "j2"}
AudioPaths == {"a1.mp3"}
PhotoLists == {<<>>, <<"p1.jpg">>, <<"p2.jpg", "p1.jpg">>}
VoiceTexts == {"", "  ", "road repair"}
AudioFiles == {"t1.mp3"}
FilePaths == {"v1.mp4", "v2.mp4"}
Modules == {"polling", "upload", "legacy"}
Doms == {"noAvatar", "noPreview", "full"}

\* JavaScript truthiness of a string-or-null value
Truthy(v) == v # NULL /\ v # ""

\* a || b
OrElse(a, b) == IF Truthy(a) THEN a ELSE b

\* String.prototype.trim on the texts the model types in
Trim(s) == IF s = "  " THEN "" ELSE s

\* `upload_${Date.now()}`
UploadId == "upload_now"

\* the topic of the temporary task of the legacy revision
TempText == "video generation task"

\* `/${path}`
UrlOf(path) == "/" \o path

\* ------------------------------------------------------------------ I/O
NoReq == [op |-> "none", arg |-> NULL, image |-> NULL]
Req(op, arg, image) == [op |-> op, arg |-> arg, image |-> image]
Quiet == [req |-> NoReq, notes |-> <<>>, slot |-> 0]
Emit(req, notes, slot) == [req |-> req, notes |-> notes, slot |-> slot]

\* --------------------------------------------------- status responses
Rec(type, status, path) == [media_type |-> type, status |-> status, file_path |-> path]

\* what getMediaStatus hands to the poller: on any request failure the
\* wrapper returns {success: false, error} and media_records is absent
TransportFailure == [success |-> FALSE, hasRecords |-> FALSE, media_records |-> <<>>]
Answer(records) == [success |-> TRUE, hasRecords |-> TRUE, media_records |-> records]

StatusResponses ==
    { TransportFailure,
      [success |-> TRUE, hasRecords |-> FALSE, media_records |-> <<>>],
      Answer(<<>>),
      Answer(<<Rec("video", "processing", "")>>),
      Answer(<<Rec("avatar_video", "pending", "")>>),
      Answer(<<Rec("video", "completed", "")>>),
      Answer(<<Rec("avatar_video", "completed", NULL)>>),
      Answer(<<Rec("video", "failed", "")>>),
      Answer(<<Rec("avatar_video", "failed", "")>>),
      Answer(<<Rec("voice", "completed", "a1.mp3")>>),
      Answer(<<Rec("voice", "failed", ""), Rec("video", "processing", "")>>),
      Answer(<<Rec("video", "failed", ""), Rec("video", "processing", "")>>),
      Answer(<<Rec("avatar_video", "completed", "v1.mp4"), Rec("video", "processing", "")>>),
      Answer(<<Rec("video", "processing", ""), Rec("video", "completed", "v1.mp4")>>) }
    \cup { Answer(<<Rec(t, "completed", f)>>) : t \in {"video", "avatar_video"}, f \in FilePaths }
    \cup { Answer(<<Rec("voice", "completed", "a1.mp3"), Rec("video", "completed", f)>>) : f \in FilePaths }

IsVideoType(t) == t = "avatar_video" \/ t = "video"

\* find() replaced by a search from the end: the last record of the kind
FindRecord_lastOfKind(res) ==
    IF ~res.hasRecords THEN 0
    ELSE LET hits == { i \in 1..Len(res.media_records) : IsVideoType(res.media_records[i].media_type) }
         IN IF hits = {} THEN 0 ELSE CHOOSE i \in hits : \A j \in hits : i >= j

\* find() without the test of media_type: the first record of any kind
FindRecord_anyKind(res) ==
    IF ~res.hasRecords \/ Len(res.media_records) = 0 THEN 0 ELSE 1

\* statusRes.media_records?.find(r => ...): index of the first record of the
\* poller's kind, 0 when there is none or media_records is absent
FindRecord(res) ==
    IF ~res.hasRecords THEN 0
    ELSE LET hits == { i \in 1..Len(res.media_records) : IsVideoType(res.media_records[i].media_type) }
         IN IF hits = {} THEN 0 ELSE CHOOSE i \in hits : \A j \in hits : i <= j

\* Outcome with the failed branch lost: a failed record keeps the poller polling
Outcome_failedKeepsPolling(res) ==
    LET i == FindRecord(res)
    IN IF i = 0 THEN "poll"
       ELSE LET r == res.media_records[i]
            IN IF r.status = "completed" /\ Truthy(r.file_path) THEN "completed" ELSE "poll"

\* Outcome that treats success: false of the wrapper as a failed job
Outcome_errorIsFailure(res) ==
    LET i == FindRecord(res)
    IN IF ~res.success THEN "failed"
       ELSE IF i = 0 THEN "poll"
       ELSE LET r == res.media_records[i]
            IN IF r.status = "completed" /\ Truthy(r.file_path) THEN "completed"
               ELSE IF r.status = "failed" THEN "failed"
               ELSE "poll"

\* Outcome that takes status completed alone as the end
Outcome_completedWithoutPath(res) ==
    LET i == FindRecord(res)
    IN IF i = 0 THEN "poll"
       ELSE LET r == res.media_records[i]
            IN IF r.status = "completed" THEN "completed"
               ELSE IF r.status = "failed" THEN "failed"
               ELSE "poll"

\* the branch check() takes on a status response
Outcome(res) ==
    LET i == FindRecord(res)
    IN IF i = 0 THEN "poll"
       ELSE LET r == res.media_records[i]
            IN IF r.status = "completed" /\ Truthy(r.file_path) THEN "completed"
               ELSE IF r.status = "failed" THEN "failed"
               ELSE "poll"

RecordPath(res) == res.media_records[FindRecord(res)].file_path

\* off by one: attempts >= maxAttempts
Exhausted_atLimit(attempts) == attempts >= maxAttempts

\* attempts > maxAttempts
Exhausted(attempts) == attempts > maxAttempts

\* displayVideoPlayer of the polling revision dereferences
\* mediaCard.querySelector('.media-preview') without a null check
DisplayThrows(d) == d = "noPreview"

Bump(n) == IF n < GhostCap THEN n + 1 ELSE n

\* ------------------------------------------------------------------ state
VARIABLES
    module,              \* which revision of the video module the page loaded
    dom,                 \* structure of the page around .generated-avatar
    uploadedPhotoPaths,  \* video module: <<>> stands for null and for []
    uploadedAudioPath,
    currentTaskId,
    currentVoiceTaskId,
    currentVideoTaskId,
    generatedVideoUrl,
    launch,              \* per launch of handleVideoGenerate: its position and locals
    poller,              \* per launch: the closure of pollVideoStatus
    voiceTaskId,         \* voice module: currentVoiceTaskId
    generatedAudioUrl,
    voiceRun,            \* per run of handleVoiceGenerate: its position and locals
    approved,            \* task ids for which an approve request returned success
    contentTaskId,       \* content module: currentTaskId
    contentRun,          \* per run of the content module's generate()
    gateway,             \* a direct call of an APIClient.staff operation
    regCall,             \* the arguments of the last setCurrentTaskId call
    photoGrid,           \* console: the paths of the .photo-item children of .photo-grid
    photoBatch,          \* per run of handlePhotoUpload: its position in the loop
    proofreadSessionId,  \* proofreading module: the session id it holds
    proofreadRun,        \* per run of sendProofreadRequest: its position and locals
    out                  \* I/O of the last handler step

vars == <<module, dom, uploadedPhotoPaths, uploadedAudioPath, currentTaskId,
          currentVoiceTaskId, currentVideoTaskId, generatedVideoUrl, launch, poller,
          voiceTaskId, generatedAudioUrl, voiceRun, approved,
          contentTaskId, contentRun, gateway, regCall, photoGrid, photoBatch,
          proofreadSessionId, proofreadRun, out>>

registryVars == <<uploadedPhotoPaths, uploadedAudioPath, currentTaskId, currentVoiceTaskId>>
voiceVars == <<voiceTaskId, generatedAudioUrl, voiceRun, approved>>
envVars == <<module, dom>>
contentVars == <<contentTaskId, contentRun>>
proofVars == <<proofreadSessionId, proofreadRun>>
pageVars == <<photoGrid, photoBatch, proofVars>>
consoleVars == <<contentVars, gateway, regCall, pageVars>>

Slots == 1..MaxRelaunches
Runs == 1..MaxVoiceRuns
ContentRuns == 1..MaxContentRuns
Batches == 1..MaxBatches

\* pc: none, rejected, creating, starting, failed, polling, done
\* image: the local imagePath where the handler reads it after an await;
\* jobId: the task_id of the successful start response
NoLaunch == [pc |-> "none", image |-> NULL, jobId |-> NULL]

\* phase: none, fetching (status request in flight), timer (setTimeout pending),
\* stopped.  taskId and attempts are the closure's variables; the rest records
\* what the poller did: status requests issued, the last response, whether all
\* responses so far were request failures / non-terminal answers, the
\* terminal status last observed and the reports made; inflight and timers
\* count the status requests awaiting their answer and the setTimeout
\* callbacks that have not fired
NoPoller == [phase |-> "none", taskId |-> NULL, attempts |-> 0, fetches |-> 0,
             last |-> TransportFailure, onlyFailures |-> TRUE, onlyPending |-> TRUE,
             observed |-> "none",
             shown |-> 0, doneNotes |-> 0, failedNotes |-> 0, timeoutNotes |-> 0,
             inflight |-> 0, timers |-> 0]
\* pc: none, rejected, creating, approving, voicing, failed, done
\* taskId: the handler's local; reqs, got: the requests the run has issued
\* and the success flags of the responses it has received, in order
NoRun == [pc |-> "none", taskId |-> NULL, reqs |-> <<>>, got |-> <<>>]

\* pc: none, rejected, generating, failed, done
NoContentRun == [pc |-> "none"]

\* the fields of a JSON response body the stages read; where the backend
\* puts a success field into a 2xx body it is true, so spreading the body
\* over {success: true} leaves success true
NoData == [task_id |-> NULL, file_path |-> NULL, message |-> NULL]

\* what the network did with a request.  status 0: fetch() rejected
\* (no response); parses: the body of an error response is JSON;
\* detail: its detail field; data: the body of a 2xx response
NoAnswer == [status |-> 0, parses |-> FALSE, detail |-> NULL, data |-> NoData]

\* what the caller of a gateway operation gets: rejected when the returned
\* promise rejects, else the object it resolves to
NoResult == [rejected |-> FALSE, success |-> FALSE, error |-> NULL, data |-> NoData]

\* phase: idle, inflight, returned; op, arg: the operation called and its
\* first argument; answer: what the network did; result: what the caller got
NoGateway == [phase |-> "idle", op |-> "none", arg |-> NULL,
              answer |-> NoAnswer, result |-> NoResult]

NoRegCall == [taskId |-> NULL, type |-> "none"]

\* pc: none, uploading, done; left: the files of the batch after the one
\* being uploaded
NoBatch == [pc |-> "none", left |-> 0]
ProofRuns == 1..MaxProofreads
\* what the proofread wrapper returns when request() threw
ProofreadFailure == [success |-> FALSE, session_id |-> NULL]
\* pc: none, waiting, done; body: what the wrapper posted to /chat;
\* result: what the wrapper returned
NoProofread == [pc |-> "none", body |-> [message |-> "", session_id |-> NULL, role |-> ""],
                result |-> ProofreadFailure]

Init ==
    /\ module \in Modules
    /\ dom \in Doms
    /\ uploadedPhotoPaths = <<>>
    /\ uploadedAudioPath = NULL
    /\ currentTaskId = NULL
    /\ currentVoiceTaskId = NULL
    /\ currentVideoTaskId = NULL
    /\ generatedVideoUrl = NULL
    /\ launch = [i \in Slots |-> NoLaunch]
    /\ poller = [i \in Slots |-> NoPoller]
    /\ voiceTaskId = NULL
    /\ generatedAudioUrl = NULL
    /\ voiceRun = [r \in Runs |-> NoRun]
    /\ approved = {}
    /\ contentTaskId = NULL
    /\ contentRun = [r \in ContentRuns |-> NoContentRun]
    /\ gateway = NoGateway
    /\ regCall = NoRegCall
    /\ photoGrid = <<>>
    /\ photoBatch = [b \in Batches |-> NoBatch]
    /\ proofreadSessionId = NULL
    /\ proofreadRun = [r \in ProofRuns |-> NoProofread]
    /\ out = Quiet

\* ------------------------------------------------------------ registry
SetUploadedPhotoPaths(paths) ==
    /\ uploadedPhotoPaths' = paths
    /\ out' = Quiet
    /\ UNCHANGED <<envVars, consoleVars, uploadedAudioPath, currentTaskId, currentVoiceTaskId,
                   currentVideoTaskId, generatedVideoUrl, launch, poller, voiceVars>>

\* the legacy revision exports no setUploadedAudioPath: the caller's call
\* throws and is caught there, and the module state stays as it is
SetUploadedAudioPath(path) ==
    /\ uploadedAudioPath' = IF module = "legacy" THEN uploadedAudioPath ELSE path
    /\ out' = Quiet
    /\ UNCHANGED <<envVars, consoleVars, uploadedPhotoPaths, currentTaskId, currentVoiceTaskId,
                   currentVideoTaskId, generatedVideoUrl, launch, poller, voiceVars>>

\* setCurrentTaskId whose else branch does not test the type
SetCurrentTaskId_elseIsVoice(taskId, type) ==
    /\ currentTaskId' = IF type = "content" THEN taskId ELSE currentTaskId
    /\ currentVoiceTaskId' = IF type # "content" THEN taskId ELSE currentVoiceTaskId
    /\ regCall' = [taskId |-> taskId, type |-> type]
    /\ out' = Quiet
    /\ UNCHANGED <<envVars, contentVars, gateway, pageVars, uploadedPhotoPaths, uploadedAudioPath,
                   currentVideoTaskId, generatedVideoUrl, launch, poller, voiceVars>>

SetCurrentTaskId(taskId, type) ==
    /\ currentTaskId' = IF type = "content" THEN taskId ELSE currentTaskId
    /\ currentVoiceTaskId' = IF type # "content" /\ type = "voice" THEN taskId ELSE currentVoiceTaskId
    /\ regCall' = [taskId |-> taskId, type |-> type]
    /\ out' = Quiet
    /\ UNCHANGED <<envVars, contentVars, gateway, pageVars, uploadedPhotoPaths, uploadedAudioPath,
                   currentVideoTaskId, generatedVideoUrl, launch, poller, voiceVars>>

\* ------------------------------------------------- start-request responses
StartFailure == [success |-> FALSE, task_id |-> NULL, file_path |-> NULL]
StartResponses == {StartFailure}
    \cup { [success |-> TRUE, task_id |-> j, file_path |-> NULL] : j \in JobIds }
ReturnResponses == {StartFailure}
    \cup { [success |-> TRUE, task_id |-> NULL, file_path |-> f] : f \in FilePaths }
CreateResponses == {StartFailure}
    \cup { [success |-> TRUE, task_id |-> t, file_path |-> NULL] : t \in TaskIds }

ApproveResponses == { [success |-> b] : b \in BOOLEAN }
VoiceResponses == {StartFailure}
    \cup { [success |-> TRUE, task_id |-> NULL, file_path |-> f] : f \in AudioFiles }

\* ------------------------------------------------------------ the poller
\* check() arming the next timer when it sends the request instead of when
\* the answer has come
CheckStep_rearmsAtFetch(p) ==
    LET n == p.attempts + 1
    IN IF Exhausted(n)
       THEN [p EXCEPT !.attempts = n, !.phase = "stopped", !.observed = "timed_out",
                      !.timeoutNotes = Bump(@)]
       ELSE [p EXCEPT !.attempts = n, !.phase = "fetching", !.fetches = @ + 1,
                      !.inflight = @ + 1, !.timers = @ + 1]

\* the synchronous part of check(): count the attempt, give up or fetch
CheckStep(p) ==
    LET n == p.attempts + 1
    IN IF Exhausted(n)
       THEN [p EXCEPT !.attempts = n, !.phase = "stopped", !.observed = "timed_out",
                      !.timeoutNotes = Bump(@)]
       ELSE [p EXCEPT !.attempts = n, !.phase = "fetching", !.fetches = @ + 1,
                      !.inflight = @ + 1]

\* check() asking for the module's current video task instead of the
\* taskId of its closure
CheckOut_readsCurrentVideoTaskId(p, i) ==
    IF Exhausted(p.attempts + 1)
    THEN Emit(NoReq, <<"warning:timeout">>, i)
    ELSE Emit(Req("status", currentVideoTaskId, NULL), <<>>, i)

CheckOut(p, i) ==
    IF Exhausted(p.attempts + 1)
    THEN Emit(NoReq, <<"warning:timeout">>, i)
    ELSE Emit(Req("status", p.taskId, NULL), <<>>, i)

\* pollVideoStatus with the attempt counter kept outside the closure: a new
\* session goes on counting where the first one stopped
PollVideoStatus_sharedAttempts(taskId) ==
    CheckStep([NoPoller EXCEPT !.taskId = taskId, !.attempts = poller[1].attempts])

\* pollVideoStatus(taskId): a fresh closure and the first check()
PollVideoStatus(taskId) == CheckStep([NoPoller EXCEPT !.taskId = taskId])

\* the timer set by setTimeout(check, 5000) fires
Check(i) ==
    /\ poller[i].phase = "timer"
    /\ poller' = [poller EXCEPT ![i] = CheckStep([@ EXCEPT !.timers = @ - 1])]
    /\ out' = CheckOut(poller[i], i)
    /\ UNCHANGED <<envVars, consoleVars, registryVars, currentVideoTaskId, generatedVideoUrl, launch, voiceVars>>

\* check() presenting a completed file only while its job is still the
\* module's current video task
StatusReturned_dropsStale(i, res) ==
    /\ poller[i].phase = "fetching"
    /\ LET o == Outcome(res)
           p == [poller[i] EXCEPT !.last = res, !.inflight = @ - 1,
                                  !.onlyFailures = @ /\ ~res.success,
                                  !.onlyPending = @ /\ res.success /\ o = "poll"]
       IN \/ /\ o = "completed"
             /\ generatedVideoUrl' = IF poller[i].taskId = currentVideoTaskId
                                     THEN UrlOf(RecordPath(res)) ELSE generatedVideoUrl
             /\ poller' = [poller EXCEPT ![i] =
                              [p EXCEPT !.observed = "completed",
                                        !.shown = IF poller[i].taskId = currentVideoTaskId
                                                  THEN Bump(@) ELSE @,
                                        !.phase = "stopped"]]
             /\ out' = Emit(NoReq, <<>>, i)
          \/ /\ o = "failed"
             /\ poller' = [poller EXCEPT ![i] =
                              [p EXCEPT !.observed = "failed", !.failedNotes = Bump(@),
                                        !.phase = "stopped"]]
             /\ out' = Emit(NoReq, <<"error:failed">>, i)
             /\ UNCHANGED generatedVideoUrl
          \/ /\ o = "poll"
             /\ poller' = [poller EXCEPT ![i] = [p EXCEPT !.phase = "timer", !.timers = @ + 1]]
             /\ out' = Emit(NoReq, <<>>, i)
             /\ UNCHANGED generatedVideoUrl
    /\ UNCHANGED <<envVars, consoleVars, registryVars, currentVideoTaskId, launch, voiceVars>>

\* the continuation of check() after await getMediaStatus(taskId)
StatusReturned(i, res) ==
    /\ poller[i].phase = "fetching"
    /\ LET o == Outcome(res)
           p == [poller[i] EXCEPT !.last = res, !.inflight = @ - 1,
                                  !.onlyFailures = @ /\ ~res.success,
                                  !.onlyPending = @ /\ res.success /\ o = "poll"]
       IN \/ /\ o = "completed"
             /\ generatedVideoUrl' = UrlOf(RecordPath(res))
             /\ IF DisplayThrows(dom)
                THEN /\ poller' = [poller EXCEPT ![i] =
                                     [p EXCEPT !.observed = "completed", !.shown = Bump(@),
                                               !.phase = "timer", !.timers = @ + 1]]
                     /\ out' = Emit(NoReq, <<>>, i)
                ELSE /\ poller' = [poller EXCEPT ![i] =
                                     [p EXCEPT !.observed = "completed", !.shown = Bump(@),
                                               !.doneNotes = Bump(@), !.phase = "stopped"]]
                     /\ out' = Emit(NoReq, <<"success:completed">>, i)
          \/ /\ o = "failed"
             /\ poller' = [poller EXCEPT ![i] =
                              [p EXCEPT !.observed = "failed", !.failedNotes = Bump(@),
                                        !.phase = "stopped"]]
             /\ out' = Emit(NoReq, <<"error:failed">>, i)
             /\ UNCHANGED generatedVideoUrl
          \/ /\ o = "poll"
             /\ poller' = [poller EXCEPT ![i] = [p EXCEPT !.phase = "timer", !.timers = @ + 1]]
             /\ out' = Emit(NoReq, <<>>, i)
             /\ UNCHANGED generatedVideoUrl
    /\ UNCHANGED <<envVars, consoleVars, registryVars, currentVideoTaskId, launch, voiceVars>>

\* `video_${currentVideoTaskId || Date.now()}.mp4`
DownloadName(taskId) == "video_" \o OrElse(taskId, "now") \o ".mp4"

\* saveVideoFile(): the click on an anchor whose href is the module's video
\* URL and whose download name carries the module's current video task id
SaveVideoFile ==
    /\ IF ~Truthy(generatedVideoUrl)
       THEN out' = Emit(NoReq, <<"warning:novideo">>, 0)
       ELSE out' = Emit(Req("download", generatedVideoUrl, DownloadName(currentVideoTaskId)),
                        <<"success:download">>, 0)
    /\ UNCHANGED <<envVars, consoleVars, registryVars, currentVideoTaskId, generatedVideoUrl,
                   launch, poller, voiceVars>>

\* the start request with the task id preferred to the uploaded audio
StartRequest_taskFirst(audioPath, taskId, imagePath) ==
    IF Truthy(taskId) THEN Req("video", taskId, imagePath)
    ELSE Req("videoUpload", audioPath, imagePath)

\* if (uploadedAudioPath) generateVideoWithUploadedAudio(...) else generateVideo(...)
StartRequest(audioPath, taskId, imagePath) ==
    IF Truthy(audioPath) THEN Req("videoUpload", audioPath, imagePath)
    ELSE Req("video", taskId, imagePath)

\* handleVideoGenerate with taskId = currentVoiceTaskId || currentTaskId
HandleVideoGenerate_voiceFirst(i) ==
    /\ module = "polling"
    /\ launch[i].pc = "none"
    /\ LET taskId == OrElse(currentVoiceTaskId, currentTaskId)
           imagePath == uploadedPhotoPaths[1]
       IN IF Len(uploadedPhotoPaths) = 0
          THEN /\ launch' = [launch EXCEPT ![i].pc = "rejected"]
               /\ out' = Emit(NoReq, <<"warning:photo">>, i)
          ELSE IF ~Truthy(uploadedAudioPath) /\ ~Truthy(taskId)
          THEN /\ launch' = [launch EXCEPT ![i].pc = "rejected"]
               /\ out' = Emit(NoReq, <<"warning:audio">>, i)
          ELSE LET r == StartRequest(uploadedAudioPath, taskId, imagePath)
               IN /\ launch' = [launch EXCEPT ![i].pc = "starting"]
                  /\ out' = Emit(r, <<"info:requesting">>, i)
    /\ UNCHANGED <<envVars, consoleVars, registryVars, currentVideoTaskId, generatedVideoUrl, poller, voiceVars>>

\* handleVideoGenerate taking the last uploaded photo instead of the first
HandleVideoGenerate_lastPhoto(i) ==
    /\ module = "polling"
    /\ launch[i].pc = "none"
    /\ LET taskId == OrElse(currentTaskId, currentVoiceTaskId)
           imagePath == uploadedPhotoPaths[Len(uploadedPhotoPaths)]
       IN IF Len(uploadedPhotoPaths) = 0
          THEN /\ launch' = [launch EXCEPT ![i].pc = "rejected"]
               /\ out' = Emit(NoReq, <<"warning:photo">>, i)
          ELSE IF ~Truthy(uploadedAudioPath) /\ ~Truthy(taskId)
          THEN /\ launch' = [launch EXCEPT ![i].pc = "rejected"]
               /\ out' = Emit(NoReq, <<"warning:audio">>, i)
          ELSE LET r == StartRequest(uploadedAudioPath, taskId, imagePath)
               IN /\ launch' = [launch EXCEPT ![i].pc = "starting"]
                  /\ out' = Emit(r, <<"info:requesting">>, i)
    /\ UNCHANGED <<envVars, consoleVars, registryVars, currentVideoTaskId, generatedVideoUrl, poller, voiceVars>>

\* ------------------------------------- the video stage, polling revision
\* handleVideoGenerate up to its await
HandleVideoGenerate(i) ==
    /\ module = "polling"
    /\ launch[i].pc = "none"
    /\ LET taskId == OrElse(currentTaskId, currentVoiceTaskId)
           imagePath == uploadedPhotoPaths[1]
       IN IF Len(uploadedPhotoPaths) = 0
          THEN /\ launch' = [launch EXCEPT ![i].pc = "rejected"]
               /\ out' = Emit(NoReq, <<"warning:photo">>, i)
          ELSE IF ~Truthy(uploadedAudioPath) /\ ~Truthy(taskId)
          THEN /\ launch' = [launch EXCEPT ![i].pc = "rejected"]
               /\ out' = Emit(NoReq, <<"warning:audio">>, i)
          ELSE LET r == StartRequest(uploadedAudioPath, taskId, imagePath)
               IN /\ launch' = [launch EXCEPT ![i].pc = "starting"]
                  /\ out' = Emit(r, <<"info:requesting">>, i)
    /\ UNCHANGED <<envVars, consoleVars, registryVars, currentVideoTaskId, generatedVideoUrl, poller, voiceVars>>

\* the continuation that starts the poller without looking at success
VideoStarted_pollsAnyway(i, res) ==
    /\ module = "polling"
    /\ launch[i].pc = "starting"
    /\ currentVideoTaskId' = res.task_id
    /\ launch' = [launch EXCEPT ![i] =
                    [@ EXCEPT !.pc = IF res.success THEN "polling" ELSE "failed",
                              !.jobId = res.task_id]]
    /\ poller' = [poller EXCEPT ![i] = PollVideoStatus(res.task_id)]
    /\ out' = Emit(Req("status", res.task_id, NULL), <<"success:sent">>, i)
    /\ UNCHANGED <<envVars, consoleVars, registryVars, generatedVideoUrl, voiceVars>>

\* handleVideoGenerate after the start request returned
VideoStarted(i, res) ==
    /\ module = "polling"
    /\ launch[i].pc = "starting"
    /\ IF ~res.success
       THEN /\ launch' = [launch EXCEPT ![i].pc = "failed"]
            /\ out' = Emit(NoReq, <<"error:start">>, i)
            /\ UNCHANGED <<currentVideoTaskId, poller>>
       ELSE /\ currentVideoTaskId' = res.task_id
            /\ launch' = [launch EXCEPT ![i] = [@ EXCEPT !.pc = "polling", !.jobId = res.task_id]]
            /\ poller' = [poller EXCEPT ![i] = PollVideoStatus(res.task_id)]
            /\ out' = Emit(Req("status", res.task_id, NULL), <<"success:sent">>, i)
    /\ UNCHANGED <<envVars, consoleVars, registryVars, generatedVideoUrl, voiceVars>>

\* ------------------------------------------ the video stage, upload revision
\* (synchronous start request that returns the finished file)
HandleVideoGenerateUpload(i) ==
    /\ module = "upload"
    /\ launch[i].pc = "none"
    /\ LET taskId == OrElse(currentTaskId, currentVoiceTaskId)
           imagePath == uploadedPhotoPaths[1]
       IN IF Len(uploadedPhotoPaths) = 0
          THEN /\ launch' = [launch EXCEPT ![i].pc = "rejected"]
               /\ out' = Emit(NoReq, <<"warning:photo">>, i)
               /\ UNCHANGED currentVideoTaskId
          ELSE IF ~Truthy(uploadedAudioPath) /\ ~Truthy(taskId)
          THEN /\ launch' = [launch EXCEPT ![i].pc = "rejected"]
               /\ out' = Emit(NoReq, <<"warning:audio">>, i)
               /\ UNCHANGED currentVideoTaskId
          ELSE LET r == StartRequest(uploadedAudioPath, taskId, imagePath)
               IN /\ currentVideoTaskId' = OrElse(taskId, UploadId)
                  /\ launch' = [launch EXCEPT ![i].pc = "starting"]
                  /\ out' = Emit(r, <<"info:requesting">>, i)
    /\ UNCHANGED <<envVars, consoleVars, registryVars, generatedVideoUrl, poller, voiceVars>>

VideoReturnedUpload(i, res) ==
    /\ module = "upload"
    /\ launch[i].pc = "starting"
    /\ IF ~res.success
       THEN /\ launch' = [launch EXCEPT ![i].pc = "failed"]
            /\ out' = Emit(NoReq, <<"error:start">>, i)
            /\ UNCHANGED generatedVideoUrl
       ELSE /\ generatedVideoUrl' = UrlOf(res.file_path)
            /\ launch' = [launch EXCEPT ![i].pc = "done"]
            /\ out' = Emit(NoReq, <<"success:completed">>, i)
    /\ UNCHANGED <<envVars, consoleVars, registryVars, currentVideoTaskId, poller, voiceVars>>

\* ------------------------------------------ the video stage, legacy revision
\* (no audio upload; creates a temporary task when no task id is registered)
HandleVideoGenerateLegacy(i) ==
    /\ module = "legacy"
    /\ launch[i].pc = "none"
    /\ LET taskId == OrElse(currentTaskId, currentVoiceTaskId)
           imagePath == uploadedPhotoPaths[1]
       IN IF Len(uploadedPhotoPaths) = 0
          THEN /\ launch' = [launch EXCEPT ![i].pc = "rejected"]
               /\ out' = Emit(NoReq, <<"warning:photo">>, i)
               /\ UNCHANGED currentVideoTaskId
          ELSE IF ~Truthy(taskId)
          THEN /\ launch' = [launch EXCEPT ![i] =
                               [@ EXCEPT !.pc = "creating", !.image = imagePath]]
               /\ out' = Emit(Req("create", TempText, NULL), <<"info:requesting">>, i)
               /\ UNCHANGED currentVideoTaskId
          ELSE LET r == Req("video", taskId, imagePath)
               IN /\ currentVideoTaskId' = taskId
                  /\ launch' = [launch EXCEPT ![i].pc = "starting"]
                  /\ out' = Emit(r, <<"info:requesting">>, i)
    /\ UNCHANGED <<envVars, consoleVars, registryVars, generatedVideoUrl, poller, voiceVars>>

TaskCreatedLegacy(i, res) ==
    /\ module = "legacy"
    /\ launch[i].pc = "creating"
    /\ IF ~res.success
       THEN /\ launch' = [launch EXCEPT ![i].pc = "failed"]
            /\ out' = Emit(NoReq, <<"error:create">>, i)
            /\ UNCHANGED currentVideoTaskId
       ELSE LET r == Req("video", res.task_id, launch[i].image)
            IN /\ currentVideoTaskId' = res.task_id
               /\ launch' = [launch EXCEPT ![i].pc = "starting"]
               /\ out' = Emit(r, <<>>, i)
    /\ UNCHANGED <<envVars, consoleVars, registryVars, generatedVideoUrl, poller, voiceVars>>

VideoReturnedLegacy(i, res) ==
    /\ module = "legacy"
    /\ launch[i].pc = "starting"
    /\ IF ~res.success
       THEN /\ launch' = [launch EXCEPT ![i].pc = "failed"]
            /\ out' = Emit(NoReq, <<"error:start">>, i)
            /\ UNCHANGED generatedVideoUrl
       ELSE /\ generatedVideoUrl' = UrlOf(res.file_path)
            /\ launch' = [launch EXCEPT ![i].pc = "done"]
            /\ out' = Emit(NoReq, <<"success:completed">>, i)
    /\ UNCHANGED <<envVars, consoleVars, registryVars, currentVideoTaskId, poller, voiceVars>>

\* ------------------------------------------------------ the voice pipeline
videoVars == <<currentVideoTaskId, generatedVideoUrl, launch, poller>>

\* handleVoiceGenerate up to its first await
HandleVoiceGenerate(r, value) ==
    /\ voiceRun[r].pc = "none"
    /\ LET text == Trim(value)
       IN IF ~Truthy(text)
          THEN /\ voiceRun' = [voiceRun EXCEPT ![r].pc = "rejected"]
               /\ out' = Emit(NoReq, <<"warning:text">>, 0)
          ELSE /\ voiceRun' = [voiceRun EXCEPT ![r] =
                                 [@ EXCEPT !.pc = "creating", !.reqs = <<"create">>]]
               /\ out' = Emit(Req("create", text, NULL), <<"info:requesting">>, 0)
    /\ UNCHANGED <<envVars, consoleVars, registryVars, videoVars, voiceTaskId, generatedAudioUrl, approved>>

\* the continuation after generateContent that keeps the task id in its
\* local alone and leaves currentVoiceTaskId for the end of the run
VoiceTaskCreated_keepsOldId(r, res) ==
    /\ voiceRun[r].pc = "creating"
    /\ IF ~res.success
       THEN /\ voiceRun' = [voiceRun EXCEPT ![r] =
                              [@ EXCEPT !.pc = "failed", !.got = Append(@, FALSE)]]
            /\ out' = Emit(NoReq, <<"error:create">>, 0)
       ELSE /\ voiceRun' = [voiceRun EXCEPT ![r] =
                              [@ EXCEPT !.pc = "approving", !.taskId = res.task_id,
                                        !.reqs = Append(@, "approve"), !.got = Append(@, TRUE)]]
            /\ out' = Emit(Req("approve", res.task_id, NULL), <<>>, 0)
    /\ UNCHANGED <<envVars, consoleVars, registryVars, videoVars, voiceTaskId, generatedAudioUrl, approved>>

\* after await generateContent
VoiceTaskCreated(r, res) ==
    /\ voiceRun[r].pc = "creating"
    /\ IF ~res.success
       THEN /\ voiceRun' = [voiceRun EXCEPT ![r] =
                              [@ EXCEPT !.pc = "failed", !.got = Append(@, FALSE)]]
            /\ out' = Emit(NoReq, <<"error:create">>, 0)
            /\ UNCHANGED voiceTaskId
       ELSE /\ voiceTaskId' = res.task_id
            /\ voiceRun' = [voiceRun EXCEPT ![r] =
                              [@ EXCEPT !.pc = "approving", !.taskId = res.task_id,
                                        !.reqs = Append(@, "approve"), !.got = Append(@, TRUE)]]
            /\ out' = Emit(Req("approve", res.task_id, NULL), <<>>, 0)
    /\ UNCHANGED <<envVars, consoleVars, registryVars, videoVars, generatedAudioUrl, approved>>

\* the continuation after approveTask that goes on whatever the answer was
VoiceTaskApproved_ignoresFailure(r, res) ==
    /\ voiceRun[r].pc = "approving"
    /\ approved' = IF res.success THEN approved \cup {voiceRun[r].taskId} ELSE approved
    /\ voiceRun' = [voiceRun EXCEPT ![r] =
                      [@ EXCEPT !.pc = "voicing", !.reqs = Append(@, "voice"),
                                !.got = Append(@, res.success)]]
    /\ out' = Emit(Req("voice", voiceRun[r].taskId, NULL), <<>>, 0)
    /\ UNCHANGED <<envVars, consoleVars, registryVars, videoVars, voiceTaskId, generatedAudioUrl>>

\* after await approveTask
VoiceTaskApproved(r, res) ==
    /\ voiceRun[r].pc = "approving"
    /\ IF ~res.success
       THEN /\ voiceRun' = [voiceRun EXCEPT ![r] =
                              [@ EXCEPT !.pc = "failed", !.got = Append(@, FALSE)]]
            /\ out' = Emit(NoReq, <<"error:approve">>, 0)
            /\ UNCHANGED approved
       ELSE /\ approved' = approved \cup {voiceRun[r].taskId}
            /\ voiceRun' = [voiceRun EXCEPT ![r] =
                              [@ EXCEPT !.pc = "voicing", !.reqs = Append(@, "voice"),
                                        !.got = Append(@, TRUE)]]
            /\ out' = Emit(Req("voice", voiceRun[r].taskId, NULL), <<>>, 0)
    /\ UNCHANGED <<envVars, consoleVars, registryVars, videoVars, voiceTaskId, generatedAudioUrl>>

\* the continuation after generateVoice that presents the audio whatever
\* the answer was
VoiceReturned_ignoresFailure(r, res) ==
    /\ voiceRun[r].pc = "voicing"
    /\ generatedAudioUrl' = UrlOf(IF res.success THEN res.file_path ELSE "undefined")
    /\ voiceRun' = [voiceRun EXCEPT ![r] =
                      [@ EXCEPT !.pc = "done", !.got = Append(@, res.success)]]
    /\ out' = Emit(NoReq, <<"success:voice">>, 0)
    /\ UNCHANGED <<envVars, consoleVars, registryVars, videoVars, voiceTaskId, approved>>

\* after await generateVoice
VoiceReturned(r, res) ==
    /\ voiceRun[r].pc = "voicing"
    /\ IF ~res.success
       THEN /\ voiceRun' = [voiceRun EXCEPT ![r] =
                              [@ EXCEPT !.pc = "failed", !.got = Append(@, FALSE)]]
            /\ out' = Emit(NoReq, <<"error:voice">>, 0)
            /\ UNCHANGED generatedAudioUrl
       ELSE /\ generatedAudioUrl' = UrlOf(res.file_path)
            /\ voiceRun' = [voiceRun EXCEPT ![r] =
                              [@ EXCEPT !.pc = "done", !.got = Append(@, TRUE)]]
            /\ out' = Emit(NoReq, <<"success:voice">>, 0)
    /\ UNCHANGED <<envVars, consoleVars, registryVars, videoVars, voiceTaskId, approved>>

\* ------------------------------------------------------ the content stage
Prompts == {NULL, "", "  ", "road repair"}

\* generate() of the content module up to its await; prompt is the value of
\* #genPrompt (NULL when the element is missing), hasOutput whether
\* #generatedContent exists
Generate(r, prompt, hasOutput) ==
    /\ contentRun[r].pc = "none"
    /\ IF ~Truthy(Trim(prompt))
       THEN /\ contentRun' = [contentRun EXCEPT ![r].pc = "rejected"]
            /\ out' = Emit(NoReq, <<"warning:prompt">>, 0)
       ELSE IF ~hasOutput
       THEN /\ contentRun' = [contentRun EXCEPT ![r].pc = "rejected"]
            /\ out' = Emit(NoReq, <<>>, 0)
       ELSE /\ contentRun' = [contentRun EXCEPT ![r].pc = "generating"]
            /\ out' = Emit(Req("create", prompt, NULL), <<>>, 0)
    /\ UNCHANGED <<envVars, gateway, regCall, pageVars, registryVars, videoVars, voiceVars, contentTaskId>>

\* generate() after await generateContent
ContentReturned(r, res) ==
    /\ contentRun[r].pc = "generating"
    /\ IF res.success
       THEN /\ contentTaskId' = res.task_id
            /\ contentRun' = [contentRun EXCEPT ![r].pc = "done"]
            /\ out' = Emit(NoReq, <<"success:content">>, 0)
       ELSE /\ contentRun' = [contentRun EXCEPT ![r].pc = "failed"]
            /\ out' = Emit(NoReq, <<"error:content">>, 0)
            /\ UNCHANGED contentTaskId
    /\ UNCHANGED <<envVars, gateway, regCall, pageVars, registryVars, videoVars, voiceVars>>

\* ------------------------------------------------------ the gateway
Bodies ==
    { [task_id |-> "t1", file_path |-> NULL, message |-> "ok"],
      [task_id |-> "j1", file_path |-> "v1.mp4", message |-> NULL] }

ErrorStatuses == {400, 401, 403, 404, 500}

NetAnswers ==
    {NoAnswer}
    \cup { [status |-> st, parses |-> TRUE, detail |-> NULL, data |-> b] :
             st \in {200, 201}, b \in Bodies }
    \cup { [status |-> st, parses |-> TRUE, detail |-> d, data |-> NoData] :
             st \in ErrorStatuses, d \in {NULL, "", "task not approved"} }
    \cup { [status |-> st, parses |-> FALSE, detail |-> NULL, data |-> NoData] :
             st \in ErrorStatuses }

\* response.ok
Ok(status) == status >= 200 /\ status <= 299

Thrown(message) == [thrown |-> TRUE, message |-> message, data |-> NoData]
Returned(data) == [thrown |-> FALSE, message |-> NULL, data |-> data]

\* request() reading the detail of the error body before it looks at the status
Request_detailFirst(ans) ==
    IF ans.status = 0 THEN Thrown("Failed to fetch")
    ELSE IF ~Ok(ans.status)
    THEN IF ans.parses /\ Truthy(ans.detail) THEN Thrown(ans.detail)
         ELSE IF ans.status = 401 THEN Thrown("wrong password or unauthorized")
         ELSE IF ans.status = 404 THEN Thrown("resource does not exist")
         ELSE Thrown("request failed (" \o ToString(ans.status) \o ")")
    ELSE Returned(ans.data)

\* request(url, options): what awaiting it yields
Request(ans) ==
    IF ans.status = 0 THEN Thrown("Failed to fetch")
    ELSE IF ~Ok(ans.status)
    THEN IF ans.status = 401 THEN Thrown("wrong password or unauthorized")
         ELSE IF ans.status = 404 THEN Thrown("resource does not exist")
         ELSE Thrown(OrElse(IF ans.parses THEN ans.detail ELSE NULL,
                            "request failed (" \o ToString(ans.status) \o ")"))
    ELSE Returned(ans.data)

\* the operations of APIClient.staff the stages use, by the name their
\* request carries in out
GatewayOps == {"create", "approve", "voice", "video", "videoUpload", "status"}

\* approveTask returns {success: true, message: data.message}, the other
\* operations {success: true, ...data}
Fields(op, data) ==
    IF op = "approve" THEN [NoData EXCEPT !.message = data.message] ELSE data

\* a wrapper without its try/catch: the failure of request() reaches the caller
Wrap_noCatch(op, ans) ==
    LET r == Request(ans)
    IN IF r.thrown
       THEN [rejected |-> TRUE, success |-> FALSE, error |-> r.message, data |-> NoData]
       ELSE [rejected |-> FALSE, success |-> TRUE, error |-> NULL, data |-> Fields(op, r.data)]

\* try { data = await request(...); return {success: true, ...} }
\* catch (error) { return {success: false, error: error.message} }
Wrap(op, ans) ==
    LET r == Request(ans)
    IN IF r.thrown
       THEN [rejected |-> FALSE, success |-> FALSE, error |-> r.message, data |-> NoData]
       ELSE [rejected |-> FALSE, success |-> TRUE, error |-> NULL, data |-> Fields(op, r.data)]

\* the first argument of a direct call: a topic for generateContent, an
\* audio path for generateVideoWithUploadedAudio, else a task id
GatewayArgs(op) ==
    IF op = "create" THEN {"", "road repair"}
    ELSE IF op = "videoUpload" THEN AudioPaths
    ELSE TaskIds

\* a caller invokes the operation: the wrapper passes its arguments to
\* request() as they are
GatewayCall(op, arg) ==
    /\ gateway.phase # "inflight"
    /\ gateway' = [NoGateway EXCEPT !.phase = "inflight", !.op = op, !.arg = arg]
    /\ out' = Emit(Req(op, arg, IF op \in {"video", "videoUpload"} THEN "p1.jpg" ELSE NULL),
                   <<>>, 0)
    /\ UNCHANGED <<envVars, contentVars, regCall, pageVars, registryVars, videoVars, voiceVars>>

\* the network answers and the wrapper returns
GatewayReturn(ans) ==
    /\ gateway.phase = "inflight"
    /\ gateway' = [gateway EXCEPT !.phase = "returned", !.answer = ans,
                                  !.result = Wrap(gateway.op, ans)]
    /\ out' = Quiet
    /\ UNCHANGED <<envVars, contentVars, regCall, pageVars, registryVars, videoVars, voiceVars>>

\* ------------------------------------------------- the console's photo list
\* the console's uploadedPhotoPaths and the video module's are one array:
\* every push is followed by setUploadedPhotoPaths with the same array and
\* every deletion by setUploadedPhotoPaths with the filtered copy
UploadResponses == {StartFailure}
    \cup { [success |-> TRUE, task_id |-> NULL, file_path |-> f] : f \in {"p1.jpg", "p2.jpg"} }

\* photoGrid.children.length: the photo items and the add button
Children(grid) == Len(grid) + 1

\* the head of the for loop with n files left and the grid as it is: stop
\* at the end of the files or on a full grid, else upload the next file
LoopHead(n, grid) ==
    IF n = 0 \/ Children(grid) >= 6
    THEN [pc |-> "done", left |-> 0]
    ELSE [pc |-> "uploading", left |-> n - 1]

LoopOut(n, grid, notes) ==
    IF n = 0 THEN Emit(NoReq, notes \o <<"success:uploaded">>, 0)
    ELSE IF Children(grid) >= 6 THEN Emit(NoReq, notes \o <<"warning:max", "success:uploaded">>, 0)
    ELSE Emit(Req("upload", "images", NULL), notes, 0)

\* handlePhotoUpload(files) up to its first await; hasGrid: .photo-grid and
\* its .add-photo exist
HandlePhotoUpload(b, n, hasGrid) ==
    /\ photoBatch[b].pc = "none"
    /\ IF ~hasGrid
       THEN /\ photoBatch' = [photoBatch EXCEPT ![b].pc = "done"]
            /\ out' = Quiet
       ELSE /\ photoBatch' = [photoBatch EXCEPT ![b] = LoopHead(n, photoGrid)]
            /\ out' = LoopOut(n, photoGrid, <<"info:uploading">>)
    /\ UNCHANGED <<envVars, contentVars, gateway, regCall, photoGrid, proofVars, registryVars,
                   videoVars, voiceVars>>

\* the loop body after await APIClient.documents.upload, up to the next await
PhotoUploaded(b, res) ==
    /\ photoBatch[b].pc = "uploading"
    /\ IF ~res.success
       THEN /\ photoBatch' = [photoBatch EXCEPT ![b] = LoopHead(photoBatch[b].left, photoGrid)]
            /\ out' = LoopOut(photoBatch[b].left, photoGrid, <<"error:upload">>)
            /\ UNCHANGED <<uploadedPhotoPaths, photoGrid>>
       ELSE LET grid == Append(photoGrid, res.file_path)
            IN /\ uploadedPhotoPaths' = Append(uploadedPhotoPaths, res.file_path)
               /\ photoGrid' = grid
               /\ photoBatch' = [photoBatch EXCEPT ![b] = LoopHead(photoBatch[b].left, grid)]
               /\ out' = LoopOut(photoBatch[b].left, grid, <<>>)
    /\ UNCHANGED <<envVars, contentVars, gateway, regCall, proofVars, uploadedAudioPath,
                   currentTaskId, currentVoiceTaskId, videoVars, voiceVars>>

\* Array.prototype.filter(p => p !== path)
Without(list, path) == SelectSeq(list, LAMBDA p : p # path)

\* the delete button of the k-th photo item
DeletePhoto(k) ==
    /\ k \in 1..Len(photoGrid)
    /\ photoGrid' = SubSeq(photoGrid, 1, k - 1) \o SubSeq(photoGrid, k + 1, Len(photoGrid))
    /\ uploadedPhotoPaths' = Without(uploadedPhotoPaths, photoGrid[k])
    /\ out' = Quiet
    /\ UNCHANGED <<envVars, contentVars, gateway, regCall, photoBatch, proofVars,
                   uploadedAudioPath, currentTaskId, currentVoiceTaskId, videoVars, voiceVars>>

\* ------------------------------------------------------- proofreading
\* stands for the instruction text the wrapper puts before a first message
ProofreadPrefix == "proofread this:\n\n"

HasPrefix(message) ==
    /\ Len(message) >= Len(ProofreadPrefix)
    /\ SubSeq(message, 1, Len(ProofreadPrefix)) = ProofreadPrefix

\* the body APIClient.staff.proofread posts to /chat
Proofread_prefixAlways(text, sessionId, isFirstMessage) ==
    [message |-> ProofreadPrefix \o text, session_id |-> sessionId, role |-> "staff"]

Proofread(text, sessionId, isFirstMessage) ==
    [message |-> IF isFirstMessage THEN ProofreadPrefix \o text ELSE text,
     session_id |-> sessionId, role |-> "staff"]

\* what the wrapper returns: the reply's session id (NULL: the reply has
\* none), or a failure when request() threw
ProofreadResponses ==
    {ProofreadFailure} \cup { [success |-> TRUE, session_id |-> s] : s \in {"s1", "s2", NULL} }

\* the send button with value in the message box: the click handler and
\* sendProofreadRequest up to its await
SendProofreadRequest(r, value) ==
    /\ proofreadRun[r].pc = "none"
    /\ IF ~Truthy(Trim(value))
       THEN /\ out' = Quiet
            /\ UNCHANGED proofVars
       ELSE LET isFirstMessage == ~Truthy(proofreadSessionId)
                body == Proofread(Trim(value), proofreadSessionId, isFirstMessage)
            IN /\ proofreadRun' = [proofreadRun EXCEPT ![r] = [pc |-> "waiting", body |-> body,
                                                               result |-> ProofreadFailure]]
               /\ out' = Emit(Req("chat", body.message, NULL), <<"chat:user">>, 0)
               /\ UNCHANGED proofreadSessionId
    /\ UNCHANGED <<envVars, contentVars, gateway, regCall, photoGrid, photoBatch, registryVars,
                   videoVars, voiceVars>>

\* sendProofreadRequest after its await
ProofreadReturned(r, res) ==
    /\ proofreadRun[r].pc = "waiting"
    /\ proofreadRun' = [proofreadRun EXCEPT ![r].pc = "done", ![r].result = res]
    /\ IF res.success
       THEN /\ proofreadSessionId' = res.session_id
            /\ out' = Emit(NoReq, <<"chat:ai">>, 0)
       ELSE /\ out' = Emit(NoReq, <<"chat:error">>, 0)
            /\ UNCHANGED proofreadSessionId
    /\ UNCHANGED <<envVars, contentVars, gateway, regCall, photoGrid, photoBatch, registryVars,
                   videoVars, voiceVars>>

\* the clear button; confirmed: what confirm() returned
ClearChat(confirmed) ==
    /\ IF ~confirmed
       THEN /\ out' = Quiet
            /\ UNCHANGED proofreadSessionId
       ELSE /\ proofreadSessionId' = NULL
            /\ out' = Emit(NoReq, <<"chat:reset", "success:cleared">>, 0)
    /\ UNCHANGED <<envVars, contentVars, gateway, regCall, photoGrid, photoBatch, proofreadRun,
                   registryVars, videoVars, voiceVars>>

\* ------------------------------------------- module-to-module signalling
\* the listeners the console registers on window; no module of the
\* repository dispatches 'content-generated' or 'voice-generated', so no
\* specification below has a step that runs them
OnContentGenerated(taskId) ==
    /\ Truthy(taskId)
    /\ SetCurrentTaskId(taskId, "content")

OnVoiceGenerated(taskId) ==
    /\ Truthy(taskId)
    /\ SetCurrentTaskId(taskId, "voice")

\* ------------------------------------------------------ specifications
\* launches take the slots in order
NextSlot(i) == IF i = 1 THEN TRUE ELSE launch[i - 1].pc # "none"
NextRun(r) == IF r = 1 THEN TRUE ELSE voiceRun[r - 1].pc # "none"
NextBatch(b) == IF b = 1 THEN TRUE ELSE photoBatch[b - 1].pc # "none"

\* what the callers of the registry write in Spec
TaskWrites == {<<"t1", "content">>, <<"t2", "voice">>, <<"t1", "composed">>}

\* the answers of the status endpoint followed outside SpecPoll
CoreResponses ==
    { TransportFailure,
      Answer(<<Rec("video", "processing", "")>>),
      Answer(<<Rec("video", "failed", "")>>),
      Answer(<<Rec("avatar_video", "completed", "v1.mp4")>>) }

Registry ==
    \/ \E paths \in PhotoLists : SetUploadedPhotoPaths(paths)
    \/ \E path \in AudioPaths : SetUploadedAudioPath(path)
    \/ \E w \in TaskWrites : SetCurrentTaskId(w[1], w[2])

VideoStageOn(responses) ==
    \/ \E i \in 1..MaxLaunches : NextSlot(i) /\ HandleVideoGenerate(i)
    \/ \E i \in Slots, res \in StartResponses : VideoStarted(i, res)
    \/ \E i \in Slots : poller[i].attempts < MaxPollSteps /\ Check(i)
    \/ \E i \in Slots, res \in responses : StatusReturned(i, res)
    \/ \E i \in 1..MaxLaunches : NextSlot(i) /\ HandleVideoGenerateUpload(i)
    \/ \E i \in Slots, res \in ReturnResponses : VideoReturnedUpload(i, res)
    \/ \E i \in 1..MaxLaunches : NextSlot(i) /\ HandleVideoGenerateLegacy(i)
    \/ \E i \in Slots, res \in CreateResponses : TaskCreatedLegacy(i, res)
    \/ \E i \in Slots, res \in ReturnResponses : VideoReturnedLegacy(i, res)

VideoStage == VideoStageOn(CoreResponses)

ContentStage ==
    \/ \E r \in ContentRuns, prompt \in Prompts, hasOutput \in BOOLEAN :
          Generate(r, prompt, hasOutput)
    \/ \E r \in ContentRuns, res \in CreateResponses : ContentReturned(r, res)

VoiceStage(n) ==
    \/ \E r \in 1..n, value \in VoiceTexts : NextRun(r) /\ HandleVoiceGenerate(r, value)
    \/ \E r \in Runs, res \in CreateResponses : VoiceTaskCreated(r, res)
    \/ \E r \in Runs, res \in ApproveResponses : VoiceTaskApproved(r, res)
    \/ \E r \in Runs, res \in VoiceResponses : VoiceReturned(r, res)

\* the answers of the status endpoint followed in Spec: a job that is still
\* running and a job that is done
LaunchResponses ==
    { Answer(<<Rec("video", "processing", "")>>),
      Answer(<<Rec("avatar_video", "completed", "v1.mp4")>>) }

\* the video stage of any of the three revisions, fed by the registry
Next == Registry \/ VideoStageOn(LaunchResponses)

Spec == Init /\ [][Next]_vars

\* the voice pipeline alone
NextVoice == VoiceStage(MaxVoiceRuns)

SpecVoice == Init /\ [][NextVoice]_vars

\* one voice generation next to the video stage
NextPipeline ==
    \/ SetUploadedPhotoPaths(<<"p1.jpg">>)
    \/ \E t \in TaskIds : SetCurrentTaskId(t, "voice")
    \/ VideoStage
    \/ VoiceStage(1)

SpecPipeline == Init /\ [][NextPipeline]_vars

\* the registry alone, written under every stage name
StageNames == {"content", "voice", "video", "composed"}

NextRegistry ==
    \/ \E paths \in PhotoLists : SetUploadedPhotoPaths(paths)
    \/ \E path \in AudioPaths : SetUploadedAudioPath(path)
    \/ \E taskId \in TaskIds, type \in StageNames : SetCurrentTaskId(taskId, type)

SpecRegistry == Init /\ [][NextRegistry]_vars

\* the gateway operations called one at a time
NextGateway ==
    \/ \E op \in GatewayOps : \E arg \in GatewayArgs(op) : GatewayCall(op, arg)
    \/ \E ans \in NetAnswers : GatewayReturn(ans)

SpecGateway == Init /\ [][NextGateway]_vars

\* the three stages as the console wires them: the registry of the video
\* module is written by the upload handlers alone
NextStages ==
    \/ SetUploadedPhotoPaths(<<"p1.jpg">>)
    \/ \E path \in AudioPaths : SetUploadedAudioPath(path)
    \/ ContentStage
    \/ VoiceStage(1)
    \/ VideoStage

SpecStages == Init /\ [][NextStages]_vars

\* the photo uploads and deletions of the console
NextPhotos ==
    \/ \E b \in Batches, n \in 1..MaxFiles, hasGrid \in BOOLEAN :
          NextBatch(b) /\ HandlePhotoUpload(b, n, hasGrid)
    \/ \E b \in Batches, res \in UploadResponses : PhotoUploaded(b, res)
    \/ \E k \in DOMAIN photoGrid : DeletePhoto(k)

InitPhotos == Init /\ module = "polling" /\ dom = "full"

SpecPhotos == InitPhotos /\ [][NextPhotos]_vars

\* each request runs after the one before it was sent
NextProofread(r) == IF r = 1 THEN TRUE ELSE proofreadRun[r - 1].pc # "none"

\* what the message box holds at a click of the send button
ProofreadTexts == {"draft", "  "}

\* the proofreading panel: requests, their replies in any order, and the
\* clear button
NextProofreading ==
    \/ \E r \in ProofRuns, value \in ProofreadTexts :
          NextProofread(r) /\ SendProofreadRequest(r, value)
    \/ \E r \in ProofRuns, res \in ProofreadResponses : ProofreadReturned(r, res)
    \/ \E confirmed \in BOOLEAN : ClearChat(confirmed)

InitProofreading == Init /\ module = "polling" /\ dom = "full"

SpecProofreading == InitProofreading /\ [][NextProofreading]_vars

\* the polling revision launched again while earlier pollers are in flight,
\* on a page where the player can be shown
InitRelaunch == Init /\ module = "polling" /\ dom = "full"

\* the jobs of two launches end with files of their own
RelaunchResponses ==
    { Answer(<<Rec("video", "processing", "")>>),
      Answer(<<Rec("video", "failed", "")>>),
      Answer(<<Rec("avatar_video", "completed", "v1.mp4")>>),
      Answer(<<Rec("video", "completed", "v2.mp4")>>) }

NextRelaunch ==
    \/ SetUploadedPhotoPaths(<<"p1.jpg">>)
    \/ SetCurrentTaskId("t1", "content")
    \/ \E i \in Slots : NextSlot(i) /\ HandleVideoGenerate(i)
    \/ \E i \in Slots, res \in StartResponses : VideoStarted(i, res)
    \/ \E i \in Slots : poller[i].attempts < MaxPollSteps /\ Check(i)
    \/ \E i \in Slots, res \in RelaunchResponses : StatusReturned(i, res)
    \/ SaveVideoFile

SpecRelaunch == InitRelaunch /\ [][NextRelaunch]_vars

\* the polling revision launched again after the first launch came to
\* nothing, both followed through the whole budget
InitRetry == Init /\ module = "polling"

\* launch i was rejected, its start request failed, or its poller ended with
\* a failure or the timeout
CameToNothing(i) ==
    \/ launch[i].pc \in {"rejected", "failed"}
    \/ poller[i].phase = "stopped" /\ poller[i].observed \in {"failed", "timed_out"}

RetryResponses ==
    { Answer(<<Rec("video", "processing", "")>>), Answer(<<Rec("video", "failed", "")>>) }

NextRetry ==
    \/ SetUploadedPhotoPaths(<<"p1.jpg">>)
    \/ SetCurrentTaskId("t1", "content")
    \/ HandleVideoGenerate(1)
    \/ CameToNothing(1) /\ HandleVideoGenerate(2)
    \/ \E i \in {1, 2}, res \in StartResponses : VideoStarted(i, res)
    \/ \E i \in {1, 2} : Check(i)
    \/ \E i \in {1, 2}, res \in RetryResponses : StatusReturned(i, res)

SpecRetry == InitRetry /\ [][NextRetry]_vars

\* one launch of the polling revision, followed through the whole budget
InitPoll == Init /\ module = "polling"

NextPoll ==
    \/ SetUploadedPhotoPaths(<<"p1.jpg">>)
    \/ SetCurrentTaskId("t1", "content")
    \/ HandleVideoGenerate(1)
    \/ \E res \in StartResponses : VideoStarted(1, res)
    \/ Check(1)
    \/ \E res \in StatusResponses : StatusReturned(1, res)

SpecPoll == InitPoll /\ [][NextPoll]_vars

\* ------------------------------------------------------------- claims
Stopped(p) == p.phase = "stopped"
Answered(p) == p.fetches > 0 /\ p.phase # "fetching"

\* the first record of kind video / avatar_video of a response says failed
SaysFailed(res) ==
    /\ res.hasRecords
    /\ \E k \in 1..Len(res.media_records) :
          /\ res.media_records[k].media_type \in {"video", "avatar_video"}
          /\ res.media_records[k].status = "failed"
          /\ \A j \in 1..(k - 1) : res.media_records[j].media_type \notin {"video", "avatar_video"}

\* C1: a poller that only ever received non-terminal answers stops by the
\* timeout alone, after exactly 120 status requests and one timeout report,
\* no poller ever issues more than 120 status requests, and a timed-out
\* poller makes no further step (no timer, no request).
C1_TimeoutAfterBudget ==
    /\ [](\A i \in Slots :
            /\ poller[i].fetches <= 120
            /\ (Stopped(poller[i]) /\ poller[i].onlyPending) =>
                  /\ poller[i].observed = "timed_out"
                  /\ poller[i].fetches = 120
                  /\ poller[i].timeoutNotes = 1
            /\ (poller[i].onlyPending /\ poller[i].attempts <= 120 /\ poller[i].phase # "none") =>
                  ~Stopped(poller[i]))
    /\ [][\A i \in Slots :
            (Stopped(poller[i]) /\ poller[i].observed = "timed_out") => poller'[i] = poller[i]]_vars

C1_Witness ==
    \E i \in Slots : /\ Stopped(poller[i]) /\ poller[i].onlyPending
                      /\ poller[i].observed = "timed_out" /\ poller[i].fetches = 120

\* C2 as stated: once a poller has seen a completed record with a file path
\* it has resolved with that path and issues no further status request.
C2_ResolvesAndStops ==
    /\ [](\A i \in Slots :
            /\ (poller[i].observed = "completed" /\ Stopped(poller[i])) =>
                  poller[i].fetches = poller[i].attempts
            /\ (out.slot = i /\ out.notes = <<"success:completed">>) =>
                  generatedVideoUrl \in { UrlOf(f) : f \in FilePaths })
    /\ [][\A i \in Slots :
            poller[i].observed = "completed" => poller'[i].fetches = poller[i].fetches]_vars

\* C3: a poller whose last answer located a failed record of its kind has
\* stopped with exactly one failure report and no timeout report, and a
\* poller stopped by a failure makes no further step.
C3_FailedReportedOnceAndStops ==
    /\ [](\A i \in Slots :
            (Answered(poller[i]) /\ SaysFailed(poller[i].last)) =>
               /\ Stopped(poller[i])
               /\ poller[i].observed = "failed"
               /\ poller[i].failedNotes = 1
               /\ poller[i].timeoutNotes = 0)
    /\ [][\A i \in Slots :
            (Stopped(poller[i]) /\ poller[i].observed = "failed") => poller'[i] = poller[i]]_vars

C3_Witness ==
    \E i \in Slots : /\ Stopped(poller[i]) /\ SaysFailed(poller[i].last)
                      /\ poller[i].failedNotes = 1 /\ poller[i].fetches > 1

\* C4: after a failed status request the poller has a timer pending and has
\* shown nothing; it is stopped only by the timeout; a poller all of whose
\* requests failed ends with the timeout report alone, after 120 requests.
C4_TransportFailureRetried ==
    \A i \in Slots :
       /\ (Answered(poller[i]) /\ ~poller[i].last.success) =>
             \/ poller[i].phase = "timer" /\ (out.slot = i => out = Emit(NoReq, <<>>, i))
             \/ Stopped(poller[i]) /\ poller[i].observed = "timed_out"
                  /\ poller[i].attempts = 121
       /\ (Answered(poller[i]) /\ poller[i].onlyFailures) =>
             /\ poller[i].failedNotes = 0 /\ poller[i].doneNotes = 0 /\ poller[i].shown = 0
             /\ Stopped(poller[i]) =>
                   /\ poller[i].fetches = 120 /\ poller[i].timeoutNotes = 1

C4_Witness ==
    \E i \in Slots : /\ Stopped(poller[i]) /\ poller[i].onlyFailures
                      /\ poller[i].observed = "timed_out" /\ poller[i].timeoutNotes = 1

\* C5 as stated (its safety part): a poller reports at most one terminal
\* outcome, and once it has observed one it makes no further transition.
C5_OneTerminalThenQuiet ==
    /\ [](\A i \in Slots :
            poller[i].shown + poller[i].failedNotes + poller[i].timeoutNotes <= 1)
    /\ [][\A i \in Slots :
            poller[i].observed \in {"completed", "failed", "timed_out"}
               => poller'[i] = poller[i]]_vars

\* C6 as stated: every voice or video job-start request names a task for
\* which an approve request has returned success.
C6_ApprovalPrecedesLaunch ==
    out.req.op \in {"voice", "video"} => out.req.arg \in approved

\* C7: every run of the voice pipeline issues create, approve, voice in that
\* order, each request only after the previous one returned success; the
\* approve and voice requests name the created task, the voice request a
\* task whose approval succeeded; a run that failed issued nothing after
\* the failing request.
C7_VoiceGateFailsClosed ==
    /\ \A r \in Runs :
          LET run == voiceRun[r]
          IN /\ \E n \in 0..3 : run.reqs = SubSeq(<<"create", "approve", "voice">>, 1, n)
             /\ Len(run.got) <= Len(run.reqs) /\ Len(run.reqs) <= Len(run.got) + 1
             /\ \A k \in 1..Len(run.reqs) : k > 1 => run.got[k - 1]
             /\ Len(run.reqs) >= 2 => run.taskId \in TaskIds
             /\ Len(run.reqs) = 3 => run.taskId \in approved
    /\ out.req.op = "approve" =>
          \E r \in Runs : voiceRun[r].pc = "approving" /\ voiceRun[r].taskId = out.req.arg
    /\ out.req.op = "voice" =>
          /\ out.req.arg \in approved
          /\ \E r \in Runs : voiceRun[r].pc = "voicing" /\ voiceRun[r].taskId = out.req.arg

C7_Witness ==
    \E r \in Runs : /\ voiceRun[r].pc = "failed"
                    /\ voiceRun[r].reqs = <<"create", "approve">>
                    /\ voiceRun[r].got = <<TRUE, FALSE>>
                    /\ out.notes = <<"error:approve">>

\* C8: a poller exists only for a launch whose start request returned
\* success and it polls the task_id of that response (every status request
\* carries it); a launch whose start request failed has reported the error
\* and has no poller and no status request.
C8_PollerOnlyAfterStart ==
    /\ \A i \in Slots :
          /\ poller[i].phase # "none" =>
                /\ launch[i].pc = "polling"
                /\ launch[i].jobId \in JobIds
                /\ poller[i].taskId = launch[i].jobId
          /\ launch[i].pc # "polling" => poller[i] = NoPoller
          /\ (launch[i].pc = "failed" /\ out.slot = i) =>
                /\ out.req = NoReq
                /\ out.notes \in {<<"error:start">>, <<"error:create">>}
    /\ out.req.op = "status" =>
          /\ out.slot \in Slots
          /\ launch[out.slot].pc = "polling"
          /\ out.req.arg = launch[out.slot].jobId

C8_Witness ==
    \E i \in Slots : /\ module = "polling" /\ launch[i].pc = "failed"
                      /\ poller[i] = NoPoller /\ out.notes = <<"error:start">>

\* a launch step just ran in slot i (the registry is as the handler read it)
JustLaunched(i) ==
    /\ out.slot = i
    /\ \/ launch[i].pc = "rejected"
       \/ launch[i].pc \in {"creating", "starting"} /\ out.notes = <<"info:requesting">>

NoAudioNoTask ==
    /\ uploadedAudioPath \in {NULL, ""}
    /\ currentTaskId \in {NULL, ""}
    /\ currentVoiceTaskId \in {NULL, ""}

\* C9 as stated: a launch with no uploaded audio path and no content or
\* voice task id is rejected with a warning and puts nothing on the network.
C9_NoAssetNoNetwork ==
    \A i \in Slots :
       (JustLaunched(i) /\ NoAudioNoTask) =>
          /\ launch[i].pc = "rejected"
          /\ out.req = NoReq
          /\ out.notes \in {<<"warning:photo">>, <<"warning:audio">>}

\* C10: a launch that runs with an uploaded audio path set issues the
\* audio-path start request with that path and the first photo, whatever
\* task ids are registered; every launch that passes the asset checks of a
\* revision that takes uploaded audio issues one start request, the
\* task-id one exactly when no audio path is set; no launch step of any
\* revision issues anything but a start request or the legacy revision's
\* task creation.
C10_UploadedAudioWins ==
    \A i \in Slots :
       JustLaunched(i) =>
          /\ (launch[i].pc # "rejected" /\ uploadedAudioPath \notin {NULL, ""}) =>
                out.req = [op |-> "videoUpload", arg |-> uploadedAudioPath,
                           image |-> uploadedPhotoPaths[1]]
          /\ (launch[i].pc # "rejected" /\ module \in {"polling", "upload"}) =>
                /\ launch[i].pc = "starting"
                /\ out.req.op \in {"video", "videoUpload"}
                /\ out.req.op = "video" <=> uploadedAudioPath \in {NULL, ""}
                /\ out.req.op = "video" =>
                      out.req.arg \in {currentTaskId, currentVoiceTaskId} \ {NULL, ""}
          /\ launch[i].pc = "starting" => out.req.op \in {"video", "videoUpload"}
          /\ launch[i].pc = "creating" => out.req.op = "create"
          /\ launch[i].pc = "rejected" => out.req = NoReq

C10_Witness ==
    \E i \in Slots : /\ JustLaunched(i) /\ launch[i].pc = "starting"
                      /\ uploadedAudioPath = "a1.mp3"
                      /\ currentTaskId = "t1" /\ currentVoiceTaskId = "t2"
                      /\ out.req.op = "videoUpload"

\* the launch that just ran in slot i passed the asset checks on a task id
\* alone and sent the start request for task t
LaunchedAgainst(i, t) ==
    /\ JustLaunched(i)
    /\ launch[i].pc = "starting"
    /\ out.req = [op |-> "video", arg |-> t, image |-> uploadedPhotoPaths[1]]

\* C11 as stated: once content generation has succeeded with task id T the
\* video module holds T as its content id, once voice generation has
\* created task T the video module holds T as its voice id, and a launch
\* with a photo and no uploaded audio that follows is sent against such an
\* id instead of being rejected or sent elsewhere.
C11_StagesShareIds ==
    /\ contentTaskId # NULL => currentTaskId = contentTaskId
    /\ voiceTaskId # NULL => currentVoiceTaskId = voiceTaskId
    /\ \A i \in Slots :
          (/\ JustLaunched(i) /\ Len(uploadedPhotoPaths) > 0
           /\ ~Truthy(uploadedAudioPath)
           /\ (contentTaskId # NULL \/ voiceTaskId # NULL)) =>
             \E t \in {contentTaskId, voiceTaskId} \ {NULL} : LaunchedAgainst(i, t)

\* C12: the id held for a stage is the id of the most recent
\* setCurrentTaskId call for that stage: the content id changes only in a
\* call for stage content and the voice id only in a call for stage voice,
\* each to the id of that call, so a call for one stage leaves the other
\* stage's id alone and a call with any other stage name changes neither.
C12_LastWriteWins ==
    /\ [](/\ regCall.type = "content" => currentTaskId = regCall.taskId
          /\ regCall.type = "voice" => currentVoiceTaskId = regCall.taskId
          /\ regCall = NoRegCall => (currentTaskId = NULL /\ currentVoiceTaskId = NULL))
    /\ [][/\ currentTaskId' # currentTaskId => regCall'.type = "content"
          /\ currentVoiceTaskId' # currentVoiceTaskId => regCall'.type = "voice"]_vars

C12_Witness ==
    /\ regCall = [taskId |-> "t2", type |-> "composed"]
    /\ currentTaskId = "t1"
    /\ currentVoiceTaskId = "t1"

Reports(p) == p.shown + p.failedNotes + p.timeoutNotes

\* C13: a launch made while an earlier poller is in flight leaves that
\* poller as it is: no step of another launch or poller changes it, every
\* status request it issues carries the job id its own launch received
\* (whatever the module's current video task id has become), and each
\* poller that stops has made a report of its own.
C13_RelaunchKeepsPriorPoller ==
    /\ [](/\ \A i \in Slots :
               /\ poller[i].phase # "none" => poller[i].taskId = launch[i].jobId
               /\ Stopped(poller[i]) => Reports(poller[i]) >= 1
          /\ out.req.op = "status" =>
               /\ out.slot \in Slots
               /\ out.req.arg = launch[out.slot].jobId)
    /\ [][\A i \in Slots :
            (poller[i].phase # "none" /\ out'.slot # i) => poller'[i] = poller[i]]_vars

\* both pollers have ended, the earlier launch's one last, on another job
\* id than the module's current one
C13_Witness ==
    /\ Stopped(poller[1]) /\ Stopped(poller[2])
    /\ launch[1].jobId = "j1" /\ launch[2].jobId = "j2"
    /\ currentVideoTaskId = "j2"
    /\ poller[2].observed = "failed" /\ poller[2].failedNotes = 1
    /\ poller[1].observed = "completed" /\ poller[1].doneNotes = 1
    /\ out = Emit(NoReq, <<"success:completed">>, 1)

C15_NoEmptyTopicOnNetwork ==
    out.req.op = "create" => Truthy(out.req.arg)

C17_PollersShareNothing ==
    /\ [][\A i \in Slots :
            (poller[i].phase # "none" /\ out'.slot # i) =>
               /\ poller'[i].taskId = poller[i].taskId
               /\ poller'[i].attempts = poller[i].attempts]_vars
    /\ [][\A i \in Slots :
            (poller[i].shown > 0 /\ out'.slot # i) =>
               generatedVideoUrl' = generatedVideoUrl]_vars

\* the records of kind video / avatar_video of a response
VideoRecords(res) ==
    IF res.hasRecords
    THEN { k \in 1..Len(res.media_records) :
             res.media_records[k].media_type \in {"video", "avatar_video"} }
    ELSE {}

\* the first video record of a response says completed and has no file path
CompletedWithoutPath(res) ==
    /\ VideoRecords(res) # {}
    /\ \E k \in VideoRecords(res) :
          /\ \A j \in VideoRecords(res) : k <= j
          /\ res.media_records[k].status = "completed"
          /\ res.media_records[k].file_path \in {NULL, ""}

\* poller i took its last answer as "not yet": a timer is pending and the
\* step showed nothing, or the timer has run out the attempt budget
KeptPolling(i) ==
    \/ /\ poller[i].phase = "timer"
       /\ out.slot = i => out = Emit(NoReq, <<>>, i)
    \/ /\ Stopped(poller[i]) /\ poller[i].observed = "timed_out"
       /\ poller[i].attempts = 121

\* the step is poller i receiving an answer
Receives(i) == poller[i].phase = "fetching" /\ poller'[i].phase # "fetching"

\* the step leaves the reports of poller i and the video URL as they were
NothingPresented(i) ==
    /\ poller'[i].shown = poller[i].shown
    /\ poller'[i].doneNotes = poller[i].doneNotes
    /\ poller'[i].failedNotes = poller[i].failedNotes
    /\ generatedVideoUrl' = generatedVideoUrl

\* C18: an answer whose video record is completed without a file path is
\* taken as keep-polling: it presents nothing and leaves a timer pending;
\* a poller stops only on a completed record that has a path, on a failed
\* record, or on the timeout.
C18_CompletedNeedsPath ==
    /\ [](\A i \in Slots :
            /\ (Answered(poller[i]) /\ CompletedWithoutPath(poller[i].last)) => KeptPolling(i)
            /\ Stopped(poller[i]) =>
                  \/ poller[i].observed = "timed_out" /\ poller[i].attempts = 121
                  \/ poller[i].observed = "failed" /\ SaysFailed(poller[i].last)
                  \/ /\ poller[i].observed = "completed"
                     /\ \E k \in VideoRecords(poller[i].last) :
                           /\ poller[i].last.media_records[k].status = "completed"
                           /\ poller[i].last.media_records[k].file_path \notin {NULL, ""})
    /\ [][\A i \in Slots :
            (Receives(i) /\ CompletedWithoutPath(poller'[i].last)) =>
               (NothingPresented(i) /\ poller'[i].phase = "timer")]_vars

C18_Witness ==
    \E i \in Slots :
       /\ Answered(poller[i]) /\ poller[i].phase = "timer" /\ poller[i].fetches = 2
       /\ poller[i].last = Answer(<<Rec("avatar_video", "completed", NULL)>>)
       /\ poller[i].onlyPending

\* C19: an answer none of whose video records is completed or failed
\* (records of other kinds only, no records, or no list at all) is taken as
\* keep-polling whatever its other records say: it presents nothing and
\* leaves a timer pending.
C19_OwnKindOnly ==
    /\ [](\A i \in Slots :
            (/\ Answered(poller[i])
             /\ \A k \in VideoRecords(poller[i].last) :
                   poller[i].last.media_records[k].status \notin {"completed", "failed"})
               => KeptPolling(i))
    /\ [][\A i \in Slots :
            (/\ Receives(i)
             /\ \A k \in VideoRecords(poller'[i].last) :
                   poller'[i].last.media_records[k].status \notin {"completed", "failed"})
               => (NothingPresented(i) /\ poller'[i].phase = "timer")]_vars

C19_Witness ==
    \E i \in Slots :
       /\ Answered(poller[i]) /\ poller[i].phase = "timer"
       /\ poller[i].last = Answer(<<Rec("voice", "failed", ""), Rec("video", "processing", "")>>)
       /\ Reports(poller[i]) = 0

\* C20: a launch made after an earlier one was rejected, failed to start or
\* ended failed or timed out is handled like a first one: it is rejected
\* only for want of a photo or of audio and task id, a successful start
\* gives it a poller that begins with its first attempt and first request,
\* and that poller times out only after 120 status requests of its own,
\* whatever the earlier poller consumed.
C20_RetryStartsFresh ==
    /\ [](\A i \in Slots :
            /\ JustLaunched(i) =>
                  (launch[i].pc = "rejected" <=>
                      (Len(uploadedPhotoPaths) = 0 \/ NoAudioNoTask))
            /\ launch[i].pc = "polling" <=> poller[i].phase # "none"
            /\ poller[i].phase # "none" =>
                  /\ poller[i].attempts \in 1..121
                  /\ poller[i].fetches = (IF poller[i].attempts = 121 THEN 120
                                          ELSE poller[i].attempts)
            /\ poller[i].observed = "timed_out" =>
                  (poller[i].fetches = 120 /\ poller[i].timeoutNotes = 1))
    /\ [][\A i \in Slots :
            (poller[i].phase = "none" /\ poller'[i].phase # "none") =>
               /\ poller'[i].attempts = 1 /\ poller'[i].fetches = 1
               /\ poller'[i].phase = "fetching"
               /\ out'.req = [op |-> "status", arg |-> launch'[i].jobId, image |-> NULL]]_vars

C20_Witness ==
    /\ Stopped(poller[1]) /\ poller[1].observed = "timed_out" /\ poller[1].fetches = 120
    /\ Stopped(poller[2]) /\ poller[2].observed = "timed_out" /\ poller[2].fetches = 120
    /\ poller[2].timeoutNotes = 1

\* C21: a launch that runs with no uploaded photo is rejected with the photo
\* warning and no request, whatever audio path and task ids are set; a launch
\* that is accepted runs with a photo uploaded and its start request carries
\* the first entry of the photo list as image (the legacy revision, which
\* may create a task first, sends the first entry as it was when the launch
\* ran).
C21_NoPhotoNoLaunch ==
    /\ [](\A i \in Slots :
            /\ (JustLaunched(i) /\ Len(uploadedPhotoPaths) = 0) =>
                  /\ launch[i].pc = "rejected"
                  /\ out = Emit(NoReq, <<"warning:photo">>, i)
            /\ (JustLaunched(i) /\ launch[i].pc # "rejected") =>
                  /\ Len(uploadedPhotoPaths) > 0
                  /\ out.req.op \in {"video", "videoUpload"} =>
                        out.req.image = uploadedPhotoPaths[1]
                  /\ launch[i].pc = "creating" => launch[i].image = uploadedPhotoPaths[1]
            /\ (out.slot = i /\ out.req.op \in {"video", "videoUpload"} /\ ~JustLaunched(i)) =>
                  (module = "legacy" /\ out.req.image = launch[i].image))
    /\ [][\A i \in Slots :
            /\ launch'[i].image # launch[i].image =>
                  (launch[i].pc = "none" /\ launch'[i].image = uploadedPhotoPaths[1])
            /\ (launch[i].pc = "none" /\ launch'[i].pc # "none" /\ out'.req # NoReq) =>
                  (Len(uploadedPhotoPaths) > 0 /\ uploadedPhotoPaths' = uploadedPhotoPaths)]_vars

C21_Witness ==
    \E i \in Slots :
       /\ JustLaunched(i) /\ launch[i].pc = "rejected"
       /\ uploadedPhotoPaths = <<>>
       /\ uploadedAudioPath = "a1.mp3" /\ currentTaskId = "t1" /\ currentVoiceTaskId = "t2"
       /\ out = Emit(NoReq, <<"warning:photo">>, i)

\* C22: an iteration of check() issues one status request or, with the
\* budget used up, none; a poller has at most one status request in flight
\* and at most one timer pending, and never both: a timer is armed only by
\* the step that receives the answer, and an iteration starts only when the
\* timer fires (the first one when the poller is created).
C22_OneFetchPerIteration ==
    /\ [](\A i \in Slots :
            /\ poller[i].inflight = (IF poller[i].phase = "fetching" THEN 1 ELSE 0)
            /\ poller[i].timers = (IF poller[i].phase = "timer" THEN 1 ELSE 0)
            /\ poller[i].fetches = (IF poller[i].attempts = 121 THEN 120 ELSE poller[i].attempts))
    /\ [][\A i \in Slots :
            /\ poller'[i].attempts # poller[i].attempts =>
                  /\ poller'[i].attempts = poller[i].attempts + 1
                  /\ poller[i].inflight = 0
                  /\ poller'[i].timers = 0
                  /\ poller[i].phase = "none" \/ poller[i].timers = 1
                  /\ poller'[i].fetches - poller[i].fetches = poller'[i].inflight
                  /\ poller'[i].inflight = (IF poller'[i].attempts > 120 THEN 0 ELSE 1)
                  /\ poller'[i].inflight = 1 =>
                        out' = Emit(Req("status", poller'[i].taskId, NULL), out'.notes, i)
                  /\ poller'[i].inflight = 0 => out'.req = NoReq
            /\ poller'[i].attempts = poller[i].attempts =>
                  poller'[i].fetches = poller[i].fetches
            /\ poller'[i].timers > poller[i].timers => Receives(i)]_vars

\* a poller whose player threw on a completed answer is waiting for its
\* timer again, with one timer and no request in flight
C22_Witness ==
    \E i \in Slots :
       /\ poller[i].phase = "timer" /\ poller[i].observed = "completed"
       /\ poller[i].attempts = 3 /\ poller[i].fetches = 3
       /\ poller[i].timers = 1 /\ poller[i].inflight = 0

\* the messages of the errors request() throws, by class
AuthError == "wrong password or unauthorized"
NotFoundError == "resource does not exist"
GenericError(status) == "request failed (" \o ToString(status) \o ")"

\* C23: the result of a gateway call whose response has a non-2xx status is
\* a failure whose error is decided by the status: the auth message for 401
\* and the not-found message for 404, whatever the body says, and for every
\* other status the detail of the body when the body is JSON with a
\* non-empty detail, else the generic message with the status code.
C23_ClassifiedByStatus ==
    gateway.phase = "returned" =>
       LET a == gateway.answer
           r == gateway.result
       IN (a.status # 0 /\ ~Ok(a.status)) =>
             /\ ~r.rejected /\ ~r.success /\ r.data = NoData
             /\ a.status = 401 => r.error = AuthError
             /\ a.status = 404 => r.error = NotFoundError
             /\ a.status \notin {401, 404} =>
                   r.error = (IF a.parses /\ a.detail \notin {NULL, ""}
                              THEN a.detail ELSE GenericError(a.status))

\* a 401 whose body carries a detail is reported as the auth error
C23_Witness ==
    /\ gateway.phase = "returned"
    /\ gateway.answer.status = 401 /\ gateway.answer.parses
    /\ gateway.answer.detail = "task not approved"
    /\ gateway.result = [NoResult EXCEPT !.error = AuthError]

\* C24 as stated: the step in which a poller receives a completed record
\* with a file path arms no timer, whether or not presenting the result
\* throws, and a poller that has observed completion starts no further
\* iteration.
C24_ThrowDoesNotResumePolling ==
    [][\A i \in Slots :
         /\ (Receives(i) /\ Outcome(poller'[i].last) = "completed") =>
               (poller'[i].timers = 0 /\ poller'[i].phase = "stopped")
         /\ poller[i].observed = "completed" =>
               poller'[i].attempts = poller[i].attempts]_vars

\* C25: a poller that receives a completed record with a path writes the
\* module's video URL with its file whatever the module's current video
\* task id is, and no poller step changes that id (only a successful start
\* response does, to its own task_id); a download started afterwards takes
\* its href from the one and its file name from the other.  So after a
\* relaunch the poller of the older job, finishing last, leaves the older
\* file under the newer job's id.
C25_StalePollerOverwrites ==
    /\ [][\A i \in Slots :
            /\ (Receives(i) /\ Outcome(poller'[i].last) = "completed") =>
                  /\ generatedVideoUrl' = UrlOf(RecordPath(poller'[i].last))
                  /\ poller'[i].shown > 0
            /\ Receives(i) => currentVideoTaskId' = currentVideoTaskId
            /\ (currentVideoTaskId' # currentVideoTaskId) =>
                  (out'.slot \in Slots /\ launch[out'.slot].pc = "starting"
                     /\ currentVideoTaskId' = launch'[out'.slot].jobId)]_vars
    /\ [](out.req.op = "download" =>
            out.req = Req("download", generatedVideoUrl, DownloadName(currentVideoTaskId)))

\* the newer job j2 finished first with v2.mp4, the older job j1 afterwards
\* with v1.mp4, and the file is then saved
C25_Witness ==
    /\ launch[1].jobId = "j1" /\ launch[2].jobId = "j2"
    /\ poller[1].taskId = "j1" /\ poller[2].taskId = "j2"
    /\ poller[2].observed = "completed" /\ poller[2].shown = 1
    /\ poller[2].last = Answer(<<Rec("video", "completed", "v2.mp4")>>)
    /\ poller[1].observed = "completed" /\ poller[1].shown = 1
    /\ poller[1].last = Answer(<<Rec("avatar_video", "completed", "v1.mp4")>>)
    /\ generatedVideoUrl = "/v1.mp4"
    /\ currentVideoTaskId = "j2"
    /\ out = Emit(Req("download", "/v1.mp4", "video_j2.mp4"), <<"success:download">>, 0)

\* the first record of kind video / avatar_video of a response that has one
FirstVideoRecord(res) ==
    res.media_records[CHOOSE k \in VideoRecords(res) : \A j \in VideoRecords(res) : k <= j]

\* C26: the step in which a poller receives an answer with video records is
\* decided by the first of them alone: failed ends the poller with the
\* failure report, completed with a path presents that path, anything else
\* leaves a timer pending and presents nothing, whatever the later video
\* records of the answer say.
C26_FirstRecordDecides ==
    [][\A i \in Slots :
         (Receives(i) /\ VideoRecords(poller'[i].last) # {}) =>
            LET r == FirstVideoRecord(poller'[i].last)
            IN /\ r.status = "failed" =>
                     /\ Stopped(poller'[i]) /\ poller'[i].observed = "failed"
                     /\ out' = Emit(NoReq, <<"error:failed">>, i)
                     /\ generatedVideoUrl' = generatedVideoUrl
               /\ (r.status = "completed" /\ r.file_path \notin {NULL, ""}) =>
                     /\ poller'[i].observed = "completed"
                     /\ poller'[i].shown > 0
                     /\ generatedVideoUrl' = UrlOf(r.file_path)
               /\ (r.status # "failed" /\ ~(r.status = "completed" /\ r.file_path \notin {NULL, ""})) =>
                     (NothingPresented(i) /\ poller'[i].phase = "timer")]_vars

\* a poller ended as failed by an answer whose second video record is still
\* processing
C26_Witness ==
    \E i \in Slots :
       /\ Stopped(poller[i]) /\ poller[i].observed = "failed" /\ poller[i].failedNotes = 1
       /\ poller[i].last = Answer(<<Rec("video", "failed", ""), Rec("video", "processing", "")>>)
       /\ out = Emit(NoReq, <<"error:failed">>, i)

\* C27: a launch that runs with a photo and without an uploaded audio path
\* sends the task-id start request against the content task id when one is
\* set, whatever the voice task id is, and against the voice task id only
\* when no content task id is set.
C27_ContentIdPreferred ==
    \A i \in Slots :
       (JustLaunched(i) /\ Len(uploadedPhotoPaths) > 0 /\ uploadedAudioPath \in {NULL, ""}) =>
          /\ currentTaskId \notin {NULL, ""} => LaunchedAgainst(i, currentTaskId)
          /\ (currentTaskId \in {NULL, ""} /\ currentVoiceTaskId \notin {NULL, ""}) =>
                LaunchedAgainst(i, currentVoiceTaskId)
          /\ out.req.op = "video" =>
                (out.req.arg = currentVoiceTaskId => (currentTaskId \in {NULL, ""}
                                                        \/ currentTaskId = currentVoiceTaskId))

C27_Witness ==
    \E i \in Slots :
       /\ uploadedAudioPath = NULL
       /\ currentTaskId = "t1" /\ currentVoiceTaskId = "t2"
       /\ LaunchedAgainst(i, "t1")

\* the step is run r of the voice pipeline going from pc a to pc b
Moves(r, a, b) == voiceRun[r].pc = a /\ voiceRun'[r].pc = b

\* C28: the audio URL changes only in the step in which a run receives the
\* success of its voice request, after the create and approve requests of
\* the same run and task succeeded; the voice module's current task id is
\* written by the step that receives the success of task creation and by no
\* other; a run that fails at approval or at voice generation leaves both
\* as they are, the task id being the one its creation wrote unless a later
\* creation replaced it.
C28_AudioUrlLastTaskIdFirst ==
    /\ [][/\ generatedAudioUrl' # generatedAudioUrl =>
               \E r \in Runs :
                  /\ Moves(r, "voicing", "done")
                  /\ voiceRun'[r].reqs = <<"create", "approve", "voice">>
                  /\ voiceRun'[r].got = <<TRUE, TRUE, TRUE>>
                  /\ voiceRun'[r].taskId \in approved
          /\ \A r \in Runs :
               /\ Moves(r, "creating", "approving") =>
                     /\ voiceTaskId' = voiceRun'[r].taskId
                     /\ voiceTaskId' \in TaskIds
                     /\ generatedAudioUrl' = generatedAudioUrl
               /\ (Moves(r, "approving", "failed") \/ Moves(r, "voicing", "failed")) =>
                     /\ generatedAudioUrl' = generatedAudioUrl
                     /\ voiceTaskId' = voiceTaskId
               /\ ~Moves(r, "creating", "approving") =>
                     (voiceTaskId' # voiceTaskId => \E q \in Runs : Moves(q, "creating", "approving"))]_vars
    /\ [](generatedAudioUrl # NULL => \E r \in Runs : voiceRun[r].pc = "done")

\* the first run produced audio for t1, the second created t2 and failed at
\* voice generation
C28_Witness ==
    /\ voiceRun[1].pc = "done" /\ voiceRun[1].taskId = "t1"
    /\ voiceRun[2].pc = "failed" /\ voiceRun[2].taskId = "t2"
    /\ voiceRun[2].got = <<TRUE, TRUE, FALSE>>
    /\ generatedAudioUrl = "/t1.mp3"
    /\ voiceTaskId = "t2"

\* C29 as stated: the photo list of the video module never holds more than
\* 5 paths.
C29_AtMostFivePhotos == Len(uploadedPhotoPaths) <= 5

\* C30: a proofreading request carries the first-message prefix exactly
\* when no session id is held as it is sent, and carries the held id when
\* one is held; a successful reply replaces the held id by the returned
\* one, a failed reply leaves it as it is, and a confirmed clearing of the
\* chat resets it to none.
C30_ProofreadSession ==
    [][ /\ \A r \in ProofRuns :
            /\ (proofreadRun[r].pc = "none" /\ proofreadRun'[r].pc = "waiting") =>
                  /\ HasPrefix(proofreadRun'[r].body.message) <=> ~Truthy(proofreadSessionId)
                  /\ Truthy(proofreadSessionId) =>
                        proofreadRun'[r].body.session_id = proofreadSessionId
            /\ (proofreadRun[r].pc = "waiting" /\ proofreadRun'[r].pc = "done") =>
                  proofreadSessionId' = IF proofreadRun'[r].result.success
                                        THEN proofreadRun'[r].result.session_id
                                        ELSE proofreadSessionId
        /\ (out'.notes = <<"chat:reset", "success:cleared">>) => proofreadSessionId' = NULL
      ]_vars

\* a first request went out with the prefix and was answered with session
\* s1, a second went out bare with s1 and failed, and the chat was cleared
C30_Witness ==
    /\ proofreadRun[1].pc = "done"
    /\ HasPrefix(proofreadRun[1].body.message)
    /\ proofreadRun[1].result = [success |-> TRUE, session_id |-> "s1"]
    /\ proofreadRun[2].pc = "done"
    /\ proofreadRun[2].body = [message |-> "draft", session_id |-> "s1", role |-> "staff"]
    /\ ~proofreadRun[2].result.success
    /\ out.notes = <<"chat:reset", "success:cleared">>
    /\ proofreadSessionId = NULL

====
